---- MODULE Spec2Model ----
(***************************************************************************)
(* The GeckoTerminal gateway of src/main.py: eight forwarding routes and a *)
(* liveness route, all built on fetch_from_geckoterminal, which issues one *)
(* upstream GET and turns its outcome into a decoded JSON payload or an    *)
(* HTTPException.                                                          *)
(*                                                                         *)
(* Text is a sequence of characters, one string per character (an emoji is *)
(* named by its code point).  JSON text is decoded by a recursive-descent  *)
(* parser; decoded values are tagged records standing for Python's int,    *)
(* str, list and dict.                                                     *)
(***************************************************************************)
EXTENDS Integers, Sequences, FiniteSets, TLC

(***************************************************************************)
(* Program constants.                                                      *)
(***************************************************************************)
StatusOK == 200
StatusBadRequest == 400
StatusTooManyRequests == 429
StatusConnectionError == 500
TruncLen == 200
MaxLimit == 100
DefaultLimit == 10
DefaultPage == 1

(***************************************************************************)
(* Bounds of the exploration.                                              *)
(***************************************************************************)
\* how far an upstream "data" list runs past MaxLimit
MaxOverLimit == 2
\* how far an upstream body runs past TruncLen
MaxOverTrunc == 2
\* the most negative limit a client asks for
MaxNegLimit == 2
\* the largest page a client asks for
MaxPage == 2

(***************************************************************************)
(* Text.                                                                   *)
(***************************************************************************)
Min(a, b) == IF a <= b THEN a ELSE b

Max(a, b) == IF a >= b THEN a ELSE b

At(text, i) == IF i >= 1 /\ i <= Len(text) THEN text[i] ELSE "EOF"

\* Python's s[:n] for n >= 0 and for n < 0 (a negative n counts from the end)
PySlice(s, n) ==
    IF n >= 0 THEN SubSeq(s, 1, Min(n, Len(s)))
    ELSE SubSeq(s, 1, Max(Len(s) + n, 0))

\* Python's `needle in haystack` for two strings
IsSubstring(needle, haystack) ==
    \E i \in 1..(Len(haystack) - Len(needle) + 1) :
        SubSeq(haystack, i, i + Len(needle) - 1) = needle

Digits == <<"0", "1", "2", "3", "4", "5", "6", "7", "8", "9">>

IsDigit(c) == \E d \in 1..Len(Digits) : Digits[d] = c

DigitVal(c) == (CHOOSE d \in 1..Len(Digits) : Digits[d] = c) - 1

(***************************************************************************)
(* Decoded JSON values: Python's int, str, list and dict.  A dict keeps    *)
(* its members in insertion order, one member per key.                     *)
(***************************************************************************)
JNum(n) == [t |-> "int", n |-> n]

JStr(s) == [t |-> "str", s |-> s]

JArr(items) == [t |-> "list", items |-> items]

JObj(members) == [t |-> "dict", members |-> members]

NoValue == [t |-> "none"]

Member(k, v) == [k |-> k, v |-> v]

HasKey(members, k) == \E i \in 1..Len(members) : members[i].k = k

KeyIndex(members, k) == CHOOSE i \in 1..Len(members) : members[i].k = k

\* d[k] = v on a dict: a key already there keeps its place and takes the value
DictPut(members, k, v) ==
    IF HasKey(members, k)
    THEN [members EXCEPT ![KeyIndex(members, k)] = Member(k, v)]
    ELSE Append(members, Member(k, v))

DataKey == <<"d", "a", "t", "a">>

(***************************************************************************)
(* response.json(): a recursive-descent decoder of the JSON subset the     *)
(* fixtures use (non-negative integers, strings without escapes, arrays,   *)
(* objects; no white space).  Each parser takes the text and a position    *)
(* and yields [ok, v, next].                                               *)
(***************************************************************************)
ParseFail == [ok |-> FALSE, v |-> NoValue, next |-> 0]

ParseOk(v, next) == [ok |-> TRUE, v |-> v, next |-> next]

RECURSIVE ParseDigits(_, _, _)
ParseDigits(text, i, acc) ==
    IF IsDigit(At(text, i))
    THEN ParseDigits(text, i + 1, acc * 10 + DigitVal(text[i]))
    ELSE ParseOk(JNum(acc), i)

\* a JSON number: 0, or a non-zero digit followed by digits
ParseNumber(text, i) ==
    IF text[i] = "0" THEN ParseOk(JNum(0), i + 1)
    ELSE ParseDigits(text, i, 0)

\* a JSON string without escapes: the characters up to the closing quote
ParseChars(text, i) ==
    IF \E j \in i..Len(text) : text[j] = "\""
    THEN LET j == CHOOSE j \in i..Len(text) :
                      /\ text[j] = "\""
                      /\ \A k \in i..(j - 1) : text[k] # "\""
         IN ParseOk(JStr(SubSeq(text, i, j - 1)), j + 1)
    ELSE ParseFail

\* The decoder reads an array in runs of Stride(text) elements, so that the
\* depth of the recursion grows with the square root of the array's length.
Stride(text) == CHOOSE k \in 1..(Len(text) + 1) : k * k >= Len(text) /\ (k - 1) * (k - 1) < Len(text)

RECURSIVE ParseValue(_, _)
RECURSIVE ParseRun(_, _, _, _)
RECURSIVE ParseElements(_, _, _)
RECURSIVE ParseMembers(_, _, _)

ParseValue(text, i) ==
    LET c == At(text, i) IN
    IF IsDigit(c) THEN ParseNumber(text, i)
    ELSE IF c = "\"" THEN ParseChars(text, i + 1)
    ELSE IF c = "[" THEN
        IF At(text, i + 1) = "]" THEN ParseOk(JArr(<<>>), i + 2)
        ELSE ParseElements(text, i + 1, <<>>)
    ELSE IF c = "{" THEN
        IF At(text, i + 1) = "}" THEN ParseOk(JObj(<<>>), i + 2)
        ELSE ParseMembers(text, i + 1, <<>>)
    ELSE ParseFail

\* up to `fuel` elements from position i: [ok, done, acc, next]
ParseRun(text, i, acc, fuel) ==
    LET r == ParseValue(text, i) IN
    IF ~r.ok THEN [ok |-> FALSE, done |-> TRUE, acc |-> acc, next |-> 0]
    ELSE IF At(text, r.next) = "]"
         THEN [ok |-> TRUE, done |-> TRUE, acc |-> Append(acc, r.v), next |-> r.next + 1]
    ELSE IF At(text, r.next) # ","
         THEN [ok |-> FALSE, done |-> TRUE, acc |-> acc, next |-> 0]
    ELSE IF fuel = 1
         THEN [ok |-> TRUE, done |-> FALSE, acc |-> Append(acc, r.v), next |-> r.next + 1]
    ELSE ParseRun(text, r.next + 1, Append(acc, r.v), fuel - 1)

ParseElements(text, i, acc) ==
    LET r == ParseRun(text, i, acc, Stride(text)) IN
    IF ~r.ok THEN ParseFail
    ELSE IF r.done THEN ParseOk(JArr(r.acc), r.next)
    ELSE ParseElements(text, r.next, r.acc)

ParseMembers(text, i, acc) ==
    IF At(text, i) # "\"" THEN ParseFail
    ELSE
        LET k == ParseChars(text, i + 1) IN
        IF ~k.ok \/ At(text, k.next) # ":" THEN ParseFail
        ELSE
            LET r == ParseValue(text, k.next + 1) IN
            IF ~r.ok THEN ParseFail
            ELSE IF At(text, r.next) = ","
                 THEN ParseMembers(text, r.next + 1, DictPut(acc, k.v.s, r.v))
            ELSE IF At(text, r.next) = "}"
                 THEN ParseOk(JObj(DictPut(acc, k.v.s, r.v)), r.next + 1)
            ELSE ParseFail

\* the whole text must be one value
JsonDecode(text) ==
    LET r == ParseValue(text, 1) IN
    IF r.ok /\ r.next = Len(text) + 1 THEN r ELSE ParseFail

(***************************************************************************)
(* The upstream provider's side: how a fixture serialises a JSON value.    *)
(***************************************************************************)
RECURSIVE NumToText(_)
NumToText(n) ==
    IF n < 10 THEN <<Digits[n + 1]>>
    ELSE Append(NumToText(n \div 10), Digits[(n % 10) + 1])

RECURSIVE JsonEncode(_)
RECURSIVE EncodeElements(_, _, _)
RECURSIVE EncodeMembers(_, _)

JsonEncode(v) ==
    IF v.t = "int" THEN NumToText(v.n)
    ELSE IF v.t = "str" THEN <<"\"">> \o v.s \o <<"\"">>
    ELSE IF v.t = "list" THEN <<"[">> \o EncodeElements(v.items, 1, Len(v.items)) \o <<"]">>
    ELSE <<"{">> \o EncodeMembers(v.members, 1) \o <<"}">>

\* items[lo..hi], comma-separated
EncodeElements(items, lo, hi) ==
    IF lo > hi THEN <<>>
    ELSE IF lo = hi THEN JsonEncode(items[lo])
    ELSE LET mid == (lo + hi) \div 2 IN
         EncodeElements(items, lo, mid) \o <<",">> \o EncodeElements(items, mid + 1, hi)

EncodeMembers(members, i) ==
    IF i > Len(members) THEN <<>>
    ELSE (IF i > 1 THEN <<",">> ELSE <<>>)
         \o <<"\"">> \o members[i].k \o <<"\"", ":">> \o JsonEncode(members[i].v)
         \o EncodeMembers(members, i + 1)

(***************************************************************************)
(* The texts of the program.                                               *)
(***************************************************************************)
BASE_URL == <<"https://api.geckoterminal.com/api/v2">>

BadRequestPrefix ==
    <<"U+274C", " ", "B", "a", "d", " ", "R", "e", "q", "u", "e", "s", "t",
      ":", " ">>

RateLimitDetail ==
    <<"U+274C", " ", "R", "a", "t", "e", " ", "l", "i", "m", "i", "t", " ",
      "e", "x", "c", "e", "e", "d", "e", "d", ".", " ", "P", "l", "e", "a",
      "s", "e", " ", "t", "r", "y", " ", "a", "g", "a", "i", "n", " ", "l",
      "a", "t", "e", "r", ".">>

UnexpectedPrefix ==
    <<"U+26A0", " ", "U", "n", "e", "x", "p", "e", "c", "t", "e", "d", " ",
      "E", "r", "r", "o", "r", ":", " ">>

ConnectionPrefix ==
    <<"U+274C", " ", "C", "o", "n", "n", "e", "c", "t", "i", "o", "n", " ",
      "E", "r", "r", "o", "r", ":", " ">>

MessageKey == <<"m", "e", "s", "s", "a", "g", "e">>

VersionKey == <<"v", "e", "r", "s", "i", "o", "n">>

HomeMessage ==
    <<"U+2705", " ", "G", "e", "c", "k", "o", "T", "e", "r", "m", "i", "n",
      "a", "l", " ", "A", "P", "I", " ", "i", "s", " ", "r", "u", "n", "n",
      "i", "n", "g", "!">>

HomeVersion == <<"1", ".", "0", ".", "0">>

(***************************************************************************)
(* What a call ends with: a returned value, a raised HTTPException, or an  *)
(* exception of another class that nothing in the program catches.         *)
(***************************************************************************)
Pending == [kind |-> "none", value |-> NoValue, status |-> 0, detail |-> <<>>]

Returned(v) == [kind |-> "return", value |-> v, status |-> 0, detail |-> <<>>]

HTTPException(status, detail) ==
    [kind |-> "HTTPException", value |-> NoValue, status |-> status, detail |-> detail]

Uncaught(class) == [kind |-> "uncaught", value |-> NoValue, status |-> 0, detail |-> <<class>>]

(***************************************************************************)
(* What requests.get yields: a response, or a raised RequestException.     *)
(***************************************************************************)
NoReply == [kind |-> "none", status |-> 0, text |-> <<>>]

Response(status, text) == [kind |-> "response", status |-> status, text |-> text]

RequestException(description) == [kind |-> "exception", status |-> 0, text |-> description]

\* str(e) of the error response.json() raises on a body that is not JSON
JSONErrorText ==
    <<"E", "x", "p", "e", "c", "t", "i", "n", "g", " ", "v", "a", "l", "u",
      "e">>

(***************************************************************************)
(* fetch_from_geckoterminal                                                *)
(***************************************************************************)
\* a GET that is sent again right after it was sent
RequestsGetAgain(sent, endpoint, params) ==
    Append(Append(sent, [url |-> BASE_URL \o endpoint, params |-> params]),
           [url |-> BASE_URL \o endpoint, params |-> params])

\* line 27: the one requests.get of a call, appended to the calls sent so far
RequestsGet(sent, endpoint, params) ==
    Append(sent, [url |-> BASE_URL \o endpoint, params |-> params])

\* response.text returned in place of response.json()
OnOKText(reply, ownJSONError) == Returned(JStr(reply.text))

\* lines 31-32
OnOK(reply, ownJSONError) ==
    LET decoded == JsonDecode(reply.text) IN
    IF decoded.ok THEN Returned(decoded.v)
    ELSE IF ownJSONError
         THEN HTTPException(StatusConnectionError, ConnectionPrefix \o JSONErrorText)
    ELSE Uncaught("ValueError")

\* the 400 branch with the body cut as in the last branch
OnBadRequestCut(reply) ==
    HTTPException(StatusBadRequest, BadRequestPrefix \o PySlice(reply.text, TruncLen))

\* lines 33-35
OnBadRequest(reply) == HTTPException(StatusBadRequest, BadRequestPrefix \o reply.text)

\* the 429 branch with the body in the detail, as it is in the print
OnTooManyRequestsEcho(reply) ==
    HTTPException(StatusTooManyRequests, RateLimitDetail \o reply.text)

\* lines 36-38
OnTooManyRequests(reply) == HTTPException(StatusTooManyRequests, RateLimitDetail)

\* the last branch without the [:200]
OnOtherStatusWhole(reply) == HTTPException(reply.status, UnexpectedPrefix \o reply.text)

\* lines 39-41
OnOtherStatus(reply) ==
    HTTPException(reply.status, UnexpectedPrefix \o PySlice(reply.text, TruncLen))

\* lines 42-44
OnRequestException(reply) ==
    HTTPException(StatusConnectionError, ConnectionPrefix \o reply.text)

\* lines 26-44: the outcome of the call for what requests.get yielded.
\* ownJSONError tells whether the installed requests raises its own
\* JSONDecodeError, a RequestException, from response.json() (2.27 and later)
\* or lets the json module's ValueError through (earlier versions).
FetchOutcome(reply, ownJSONError) ==
    IF reply.kind = "exception" THEN OnRequestException(reply)
    ELSE IF reply.status = StatusOK THEN OnOK(reply, ownJSONError)
    ELSE IF reply.status = StatusBadRequest THEN OnBadRequest(reply)
    ELSE IF reply.status = StatusTooManyRequests THEN OnTooManyRequests(reply)
    ELSE OnOtherStatus(reply)

(***************************************************************************)
(* The route handlers' own code.                                           *)
(***************************************************************************)
PInt(n) == [int |-> n]

PStr(s) == [str |-> s]

Param(k, v) == [k |-> k, v |-> v]

\* min(limit, 100)
ClampLimit(limit) == Min(limit, MaxLimit)

\* `"data" in result` for each class of result; an int is not iterable
DataIn(result) ==
    IF result.t = "dict" THEN HasKey(result.members, DataKey)
    ELSE IF result.t = "list"
         THEN \E i \in 1..Len(result.items) : result.items[i] = JStr(DataKey)
    ELSE IF result.t = "str" THEN IsSubstring(DataKey, result.s)
    ELSE FALSE

\* lines 57-60 and 75-78: the value the handler returns, or the TypeError of
\* `in` on an int and of ["data"] on a list or a str
LimitData(result, limit) ==
    IF result.t = "int" THEN Uncaught("TypeError")
    ELSE IF ~DataIn(result) THEN Returned(result)
    ELSE IF result.t # "dict" THEN Uncaught("TypeError")
    ELSE LET data == result.members[KeyIndex(result.members, DataKey)].v IN
         IF data.t = "list"
         THEN Returned(JObj(DictPut(result.members, DataKey,
                                    JArr(PySlice(data.items, ClampLimit(limit))))))
         ELSE Returned(result)

\* lines 90-93, 106-109, 150-153
PageLimitParams(page, limit) == <<Param("page", PInt(page)), Param("limit", PInt(limit))>>

\* lines 122-125
LimitPeriodParams(limit, period) ==
    <<Param("limit", PInt(limit)), Param("period", PStr(period))>>

\* line 164
LimitParams(limit) == <<Param("limit", PInt(limit))>>

\* line 71
QueryParams(query) == <<Param("query", PStr(query))>>

\* line 17
HomePayload ==
    JObj(<<Member(MessageKey, JStr(HomeMessage)), Member(VersionKey, JStr(HomeVersion))>>)

LimitingRoutes == {"get_trending_networks", "search_networks"}

ForwardingRoutes ==
    LimitingRoutes \cup
    {"get_network_pools", "get_network_tokens", "get_top_tokens_by_volume",
     "get_token_details", "get_token_pools", "get_supported_networks"}

(***************************************************************************)
(* The upstream fixtures.                                                  *)
(***************************************************************************)
Iota(n) == JArr([i \in 1..n |-> JNum(i)])

DataOf(v) == JObj(<<Member(DataKey, v)>>)

Eth == <<"e", "t", "h">>

MetaKey == <<"m", "e", "t", "a">>

SlowDown == <<"s", "l", "o", "w", " ", "d", "o", "w", "n">>

\* a body of n characters that is not JSON
Filler(n) == [i \in 1..n |-> <<"x", "y", "z">>[(i % 3) + 1]]

\* what the upstream serialises, and the value it serialised
JsonBody(v) == [text |-> JsonEncode(v), served |-> v]

RawBody(text) == [text |-> text, served |-> NoValue]

\* a body with a key twice: the later value wins
TwiceKeyBody ==
    [text |-> <<"{", "\"", "a", "\"", ":", "1", ",", "\"", "a", "\"", ":", "2", "}">>,
     served |-> JObj(<<Member(<<"a">>, JNum(2))>>)]

WideListLens == {0, 1, 2, 3} \cup ((MaxLimit - 1)..(MaxLimit + MaxOverLimit))

WideBodyLens == {TruncLen - Len(UnexpectedPrefix), TruncLen - Len(UnexpectedPrefix) + 1}
                \cup ((TruncLen - 1)..(TruncLen + MaxOverTrunc))

WideBodies ==
    {JsonBody(DataOf(Iota(n))) : n \in WideListLens}
    \cup {JsonBody(JObj(<<Member(DataKey, Iota(3)), Member(MetaKey, JStr(Eth))>>)),
          JsonBody(JObj(<<Member(MetaKey, JStr(Eth)), Member(DataKey, Iota(3))>>)),
          JsonBody(DataOf(JNum(7))),
          JsonBody(JObj(<<Member(MetaKey, JNum(7))>>)),
          JsonBody(JObj(<<>>)),
          JsonBody(Iota(2)),
          JsonBody(JArr(<<JStr(DataKey)>>)),
          JsonBody(JStr(Eth)),
          JsonBody(JStr(DataKey)),
          JsonBody(JNum(7)),
          TwiceKeyBody}
    \cup {RawBody(<<>>), RawBody(SlowDown), RawBody(<<"{">>), RawBody(<<"[", "1", ",">>),
          RawBody(<<"0", "1">>)}
    \cup {RawBody(Filler(n)) : n \in WideBodyLens}

NarrowBodies == {JsonBody(DataOf(Iota(3))), RawBody(SlowDown)}

WideStatuses == {StatusOK, StatusBadRequest, 401, 404, StatusTooManyRequests, 500, 503}

NarrowStatuses == {StatusOK, StatusTooManyRequests}

WideFailures == {<<"t", "i", "m", "e", "d", " ", "o", "u", "t">>, <<"r", "e", "s", "e", "t">>}

NarrowFailures == {<<"r", "e", "s", "e", "t">>}

WideLimits == ((0 - MaxNegLimit)..2) \cup {DefaultLimit, MaxLimit, MaxLimit + 1, 5 * MaxLimit}

NarrowLimits == {2, MaxLimit + 1}

NetworkIds == {"eth"}

TokenAddresses == {"0xabc"}

Queries == {"eth"}

Periods == {"h24"}

(***************************************************************************)
(* State.                                                                  *)
(***************************************************************************)
Reqs == {"r1", "r2"}

VARIABLES
    ownJSONError,  \* the installed requests raises its own JSONDecodeError
    pc,            \* where each inbound request is
    call,          \* the handler's frame: route and limit
    sent,          \* the upstream GETs issued for each inbound request
    fetches,       \* how often the handler called fetch_from_geckoterminal
    reply,         \* what requests.get yielded
    served,        \* the JSON value the upstream serialised, if it did
    fetched,       \* how fetch_from_geckoterminal ended
    outcome        \* how the handler ended

vars == <<ownJSONError, pc, call, sent, fetches, reply, served, fetched, outcome>>

NoCall == [route |-> "none", limit |-> 0]

\* With one inbound request the exploration ranges over the wide fixtures;
\* with overlapping requests over the narrow ones.
Wide == Cardinality({r \in Reqs : pc[r] # "off"}) = 1

Limits == IF Wide THEN WideLimits ELSE NarrowLimits

Pages == IF Wide THEN DefaultPage..MaxPage ELSE {DefaultPage}

Bodies == IF Wide THEN WideBodies ELSE NarrowBodies

Statuses == IF Wide THEN WideStatuses ELSE NarrowStatuses

Failures == IF Wide THEN WideFailures ELSE NarrowFailures

InitWith(idle) ==
    /\ ownJSONError \in BOOLEAN
    /\ pc = [r \in Reqs |-> IF r \in idle THEN "idle" ELSE "off"]
    /\ call = [r \in Reqs |-> NoCall]
    /\ sent = [r \in Reqs |-> <<>>]
    /\ fetches = [r \in Reqs |-> 0]
    /\ reply = [r \in Reqs |-> NoReply]
    /\ served = [r \in Reqs |-> NoValue]
    /\ fetched = [r \in Reqs |-> Pending]
    /\ outcome = [r \in Reqs |-> Pending]

Init == InitWith({"r1"})

InitConcurrent == InitWith(Reqs)

(***************************************************************************)
(* Actions.                                                                *)
(***************************************************************************)
\* a result kept in one module-level name that every request reads
SetOutcomeShared(all, r, end) ==
    [q \in Reqs |-> IF q = r \/ all[q].kind # "none" THEN end ELSE all[q]]

\* `result` and the raised exception are locals of the handler's own call
SetOutcome(all, r, end) == [all EXCEPT ![r] = end]

\* line 15-17
Home(r) ==
    /\ pc[r] = "idle"
    /\ call' = [call EXCEPT ![r] = [route |-> "home", limit |-> 0]]
    /\ outcome' = SetOutcome(outcome, r, Returned(HomePayload))
    /\ pc' = [pc EXCEPT ![r] = "done"]
    /\ UNCHANGED <<ownJSONError, sent, fetches, reply, served, fetched>>

\* a handler calls fetch_from_geckoterminal, which runs up to its requests.get
CallFetch(r, route, limit, endpoint, params) ==
    /\ pc[r] = "idle"
    /\ call' = [call EXCEPT ![r] = [route |-> route, limit |-> limit]]
    /\ fetches' = [fetches EXCEPT ![r] = @ + 1]
    /\ sent' = [sent EXCEPT ![r] = RequestsGet(@, endpoint, params)]
    /\ pc' = [pc EXCEPT ![r] = "waiting"]
    /\ UNCHANGED <<ownJSONError, reply, served, fetched, outcome>>

GetTrendingNetworks(r) ==
    \E limit \in Limits :
        CallFetch(r, "get_trending_networks", limit, <<"/networks/trending">>, <<>>)

SearchNetworks(r) ==
    \E limit \in Limits, query \in Queries :
        CallFetch(r, "search_networks", limit, <<"/networks/search">>, QueryParams(query))

GetNetworkPools(r) ==
    \E network_id \in NetworkIds, limit \in Limits, page \in Pages :
        CallFetch(r, "get_network_pools", limit,
                  <<"/networks/", network_id, "/pools">>, PageLimitParams(page, limit))

GetNetworkTokens(r) ==
    \E network_id \in NetworkIds, limit \in Limits, page \in Pages :
        CallFetch(r, "get_network_tokens", limit,
                  <<"/networks/", network_id, "/tokens">>, PageLimitParams(page, limit))

GetTopTokensByVolume(r) ==
    \E network_id \in NetworkIds, limit \in Limits, period \in Periods :
        CallFetch(r, "get_top_tokens_by_volume", limit,
                  <<"/networks/", network_id, "/tokens/top">>,
                  LimitPeriodParams(limit, period))

GetTokenDetails(r) ==
    \E network_id \in NetworkIds, token_address \in TokenAddresses :
        CallFetch(r, "get_token_details", 0,
                  <<"/networks/", network_id, "/tokens/", token_address>>, <<>>)

GetTokenPools(r) ==
    \E network_id \in NetworkIds, token_address \in TokenAddresses,
       limit \in Limits, page \in Pages :
        CallFetch(r, "get_token_pools", limit,
                  <<"/networks/", network_id, "/tokens/", token_address, "/pools">>,
                  PageLimitParams(page, limit))

GetSupportedNetworks(r) ==
    \E limit \in Limits :
        CallFetch(r, "get_supported_networks", limit, <<"/networks">>, LimitParams(limit))

\* the upstream answers the GET
UpstreamResponds(r) ==
    /\ pc[r] = "waiting"
    /\ \E status \in Statuses, body \in Bodies :
        /\ reply' = [reply EXCEPT ![r] = Response(status, body.text)]
        /\ served' = [served EXCEPT ![r] = body.served]
    /\ pc' = [pc EXCEPT ![r] = "replied"]
    /\ UNCHANGED <<ownJSONError, call, sent, fetches, fetched, outcome>>

\* the GET fails without a response
UpstreamUnreachable(r) ==
    /\ pc[r] = "waiting"
    /\ \E description \in Failures :
        reply' = [reply EXCEPT ![r] = RequestException(description)]
    /\ pc' = [pc EXCEPT ![r] = "replied"]
    /\ UNCHANGED <<ownJSONError, call, sent, fetches, served, fetched, outcome>>

\* lines 29-44: fetch_from_geckoterminal ends; what it raises passes through
\* the handler, which has no except clause
FetchEnds(r) ==
    /\ pc[r] = "replied"
    /\ LET end == FetchOutcome(reply[r], ownJSONError) IN
        /\ fetched' = [fetched EXCEPT ![r] = end]
        /\ IF end.kind = "return"
           THEN /\ pc' = [pc EXCEPT ![r] = "fetched"]
                /\ UNCHANGED outcome
           ELSE /\ pc' = [pc EXCEPT ![r] = "done"]
                /\ outcome' = SetOutcome(outcome, r, end)
    /\ UNCHANGED <<ownJSONError, call, sent, fetches, reply, served>>

\* lines 56-60
TrendingLimits(r) ==
    /\ pc[r] = "fetched"
    /\ call[r].route = "get_trending_networks"
    /\ outcome' = SetOutcome(outcome, r, LimitData(fetched[r].value, call[r].limit))
    /\ pc' = [pc EXCEPT ![r] = "done"]
    /\ UNCHANGED <<ownJSONError, call, sent, fetches, reply, served, fetched>>

\* lines 74-78
SearchLimits(r) ==
    /\ pc[r] = "fetched"
    /\ call[r].route = "search_networks"
    /\ outcome' = SetOutcome(outcome, r, LimitData(fetched[r].value, call[r].limit))
    /\ pc' = [pc EXCEPT ![r] = "done"]
    /\ UNCHANGED <<ownJSONError, call, sent, fetches, reply, served, fetched>>

\* lines 94, 110, 126, 137, 154, 165: return await fetch_from_geckoterminal(...)
ReturnFetched(r) ==
    /\ pc[r] = "fetched"
    /\ call[r].route \in ForwardingRoutes \ LimitingRoutes
    /\ outcome' = SetOutcome(outcome, r, fetched[r])
    /\ pc' = [pc EXCEPT ![r] = "done"]
    /\ UNCHANGED <<ownJSONError, call, sent, fetches, reply, served, fetched>>

Next ==
    \E r \in Reqs :
        \/ Home(r)
        \/ GetTrendingNetworks(r)
        \/ SearchNetworks(r)
        \/ GetNetworkPools(r)
        \/ GetNetworkTokens(r)
        \/ GetTopTokensByVolume(r)
        \/ GetTokenDetails(r)
        \/ GetTokenPools(r)
        \/ GetSupportedNetworks(r)
        \/ UpstreamResponds(r)
        \/ UpstreamUnreachable(r)
        \/ FetchEnds(r)
        \/ TrendingLimits(r)
        \/ SearchLimits(r)
        \/ ReturnFetched(r)

Spec == Init /\ [][Next]_vars

ConcurrentSpec == InitConcurrent /\ [][Next]_vars

(***************************************************************************)
(* Properties.                                                             *)
(***************************************************************************)
\* fetch_from_geckoterminal has ended for r
Ended(r) == fetched[r].kind # "none"

\* requests.get gave r a response with this status
Got(r, status) == reply[r].kind = "response" /\ reply[r].status = status

\* the "data" list of a returned dict, or <<>> when there is none
DataItems(v) ==
    IF v.t = "dict" /\ HasKey(v.members, DataKey)
       /\ v.members[KeyIndex(v.members, DataKey)].v.t = "list"
    THEN v.members[KeyIndex(v.members, DataKey)].v.items
    ELSE <<>>

HasDataList(v) ==
    /\ v.t = "dict"
    /\ HasKey(v.members, DataKey)
    /\ v.members[KeyIndex(v.members, DataKey)].v.t = "list"

\* C1: a call whose upstream response has status 200 and a body that is the
\* serialisation of a JSON value returns exactly that value and raises nothing.
C1_OkReturnsDecodedJson ==
    \A r \in Reqs :
        (Ended(r) /\ Got(r, StatusOK) /\ served[r] # NoValue)
            => fetched[r] = Returned(served[r])

C1_Witness ==
    \E r \in Reqs :
        /\ Got(r, StatusOK)
        /\ fetched[r].kind = "return"
        /\ Len(DataItems(served[r])) > MaxLimit
        /\ fetched[r].value = served[r]

\* C2: a call whose upstream response has status 429 fails with status 429 and
\* with the one fixed message, whatever the upstream body is.
C2_RateLimitFixedMessage ==
    \A r \in Reqs :
        (Ended(r) /\ Got(r, StatusTooManyRequests))
            => /\ fetched[r].kind = "HTTPException"
               /\ fetched[r].status = StatusTooManyRequests
               /\ fetched[r].detail = RateLimitDetail

C2_Witness ==
    \E r \in Reqs :
        /\ Got(r, StatusTooManyRequests)
        /\ Len(reply[r].text) > 0
        /\ fetched[r].kind = "HTTPException"

Unmodeled(r) ==
    /\ reply[r].kind = "response"
    /\ reply[r].status \notin {StatusOK, StatusBadRequest, StatusTooManyRequests}

\* C3 as claimed: for an upstream status other than 200, 400 and 429 the call
\* fails with the upstream status and a detail text of at most 200 characters.
C3_DetailAtMostTruncLen ==
    \A r \in Reqs :
        (Ended(r) /\ Unmodeled(r))
            => /\ fetched[r].kind = "HTTPException"
               /\ fetched[r].status = reply[r].status
               /\ Len(fetched[r].detail) <= TruncLen

\* C3 as amended: for an upstream status other than 200, 400 and 429 the call
\* fails with the upstream status and a detail that is the 20-character prefix
\* followed by the first 200 characters of the body (the whole body when it is
\* shorter): the body part is at most 200 characters, the detail at most 220.
C3_BodyPartAtMostTruncLen ==
    \A r \in Reqs :
        (Ended(r) /\ Unmodeled(r))
            => /\ fetched[r].kind = "HTTPException"
               /\ fetched[r].status = reply[r].status
               /\ \E n \in 0..TruncLen :
                    /\ n = Len(reply[r].text) \/ (n = TruncLen /\ n < Len(reply[r].text))
                    /\ fetched[r].detail = UnexpectedPrefix \o SubSeq(reply[r].text, 1, n)
               /\ Len(fetched[r].detail) <= Len(UnexpectedPrefix) + TruncLen

C3_Witness ==
    \E r \in Reqs :
        /\ Ended(r)
        /\ Unmodeled(r)
        /\ Len(reply[r].text) > TruncLen
        /\ Len(fetched[r].detail) = Len(UnexpectedPrefix) + TruncLen

ClientError(r) ==
    /\ reply[r].kind = "response"
    /\ reply[r].status \in 400..499
    /\ reply[r].status # StatusTooManyRequests

\* C4 as claimed: for an upstream 4xx other than 429 the call fails with the
\* upstream status and a message that holds the whole upstream body.
C4_ClientErrorWholeBody ==
    \A r \in Reqs :
        (Ended(r) /\ ClientError(r))
            => /\ fetched[r].kind = "HTTPException"
               /\ fetched[r].status = reply[r].status
               /\ IsSubstring(reply[r].text, fetched[r].detail)

\* C4 as amended: for an upstream 4xx other than 429 the call fails with the
\* upstream status; the message holds the whole upstream body when the status
\* is 400 or the body has at most 200 characters, and otherwise ends with the
\* body's first 200 characters only.
C4_ClientErrorBodyOrItsHead ==
    \A r \in Reqs :
        (Ended(r) /\ ClientError(r))
            => /\ fetched[r].kind = "HTTPException"
               /\ fetched[r].status = reply[r].status
               /\ IF reply[r].status = StatusBadRequest \/ Len(reply[r].text) <= TruncLen
                  THEN /\ IsSubstring(reply[r].text, fetched[r].detail)
                       /\ SubSeq(fetched[r].detail,
                                 Len(fetched[r].detail) - Len(reply[r].text) + 1,
                                 Len(fetched[r].detail)) = reply[r].text
                  ELSE /\ SubSeq(fetched[r].detail,
                                 Len(fetched[r].detail) - TruncLen + 1,
                                 Len(fetched[r].detail))
                            = SubSeq(reply[r].text, 1, TruncLen)
                       /\ ~IsSubstring(reply[r].text, fetched[r].detail)

C4_Witness ==
    \E r \in Reqs :
        /\ Ended(r)
        /\ ClientError(r)
        /\ reply[r].status # StatusBadRequest
        /\ Len(reply[r].text) > TruncLen
        /\ fetched[r].status = reply[r].status

StartsWith(text, prefix) ==
    Len(text) >= Len(prefix) /\ SubSeq(text, 1, Len(prefix)) = prefix

\* C5: a call whose network call fails without a response fails with status
\* 500; and status 500 with the connection-error message comes only from a
\* call that obtained no upstream response.
C5_ConnectionErrorOnlyWithoutResponse ==
    \A r \in Reqs :
        Ended(r)
            => /\ reply[r].kind = "exception"
                    => /\ fetched[r].kind = "HTTPException"
                       /\ fetched[r].status = StatusConnectionError
               /\ (/\ fetched[r].kind = "HTTPException"
                   /\ fetched[r].status = StatusConnectionError
                   /\ StartsWith(fetched[r].detail, ConnectionPrefix))
                    => reply[r].kind = "exception"

\* C6: every forwarding request calls fetch_from_geckoterminal once and every
\* call issues one upstream GET: never a second one, whatever the upstream
\* outcome was.
C6_OneUpstreamGet ==
    \A r \in Reqs :
        /\ fetches[r] <= 1
        /\ Len(sent[r]) <= 1
        /\ call[r].route \in ForwardingRoutes => (fetches[r] = 1 /\ Len(sent[r]) = 1)
        /\ call[r].route = "home" => (fetches[r] = 0 /\ Len(sent[r]) = 0)

C6_Witness ==
    \E r \in Reqs :
        /\ pc[r] = "done"
        /\ reply[r].kind = "exception"
        /\ Len(sent[r]) = 1

\* C7: every call of fetch_from_geckoterminal ends either with a decoded JSON
\* payload or with one HTTPException (status, message), for every upstream
\* outcome: never with a failure of another kind, nor with both.
C7_PayloadOrNormalizedError ==
    \A r \in Reqs :
        Ended(r)
            => \/ /\ fetched[r].kind = "return"
                  /\ fetched[r].value # NoValue
                  /\ fetched[r].status = 0
               \/ /\ fetched[r].kind = "HTTPException"
                  /\ fetched[r].value = NoValue
                  /\ fetched[r].status # 0

\* C8: in get_trending_networks and search_networks, after a call that returned
\* a payload whose "data" is a list L, the returned "data" is the first
\* min(limit, 100) elements of L in order (all of L when it is shorter), at
\* most 100 of them, for every integer limit, and nothing is raised.
C8_FirstMinLimitElements ==
    \A r \in Reqs :
        (/\ pc[r] = "done"
         /\ call[r].route \in LimitingRoutes
         /\ fetched[r].kind = "return"
         /\ HasDataList(fetched[r].value))
            => /\ outcome[r].kind = "return"
               /\ HasDataList(outcome[r].value)
               /\ LET L == DataItems(fetched[r].value)
                      k == IF call[r].limit <= MaxLimit THEN call[r].limit ELSE MaxLimit
                  IN  /\ DataItems(outcome[r].value)
                            = SubSeq(L, 1, IF k <= Len(L) THEN k ELSE Len(L))
                      /\ Len(DataItems(outcome[r].value)) <= MaxLimit

SameRequest(p, q) ==
    /\ call[p] = call[q]
    /\ sent[p] = sent[q]
    /\ reply[p] = reply[q]

\* C9: the outcome of a request depends on nothing but its own route,
\* parameters and upstream response: two finished requests that agree in these
\* have the same outcome, and no step of another request changes the outcome a
\* request has ended with, under every interleaving of the requests.
C9_NoStateAcrossRequests ==
    /\ [](\A p, q \in Reqs :
            (pc[p] = "done" /\ pc[q] = "done" /\ SameRequest(p, q))
                => outcome[p] = outcome[q])
    /\ [][\A p \in Reqs : pc[p] = "done" => outcome'[p] = outcome[p]]_vars

C9_Witness ==
    \E p, q \in Reqs :
        /\ p # q
        /\ pc[p] = "done" /\ pc[q] = "done"
        /\ SameRequest(p, q)
        /\ call[p].route \in LimitingRoutes
        /\ outcome[p].kind = "return"
        /\ Len(DataItems(outcome[p].value)) < Len(DataItems(fetched[p].value))

LimitSent(r) ==
    LET params == sent[r][1].params
        i == CHOOSE i \in 1..Len(params) : params[i].k = "limit"
    IN params[i].v.int

\* C10: on every route documented "Number of results to return (max 100)" the
\* limit that takes effect is at most 100: the limit sent upstream, or the
\* number of elements kept in the returned "data".
C10_EffectiveLimitAtMostMax ==
    \A r \in Reqs :
        /\ call[r].route \in {"get_network_pools", "get_network_tokens",
                              "get_top_tokens_by_volume", "get_token_pools"}
            => LimitSent(r) <= MaxLimit
        /\ (/\ call[r].route \in LimitingRoutes
            /\ pc[r] = "done"
            /\ outcome[r].kind = "return")
            => Len(DataItems(outcome[r].value)) <= MaxLimit

====
